---- MODULE Spec2Model ----
(***************************************************************************)
(* Model of visualize_internal_links/main.py: extraction of the internal   *)
(* links of a WordPress export (extract_content), construction of the      *)
(* article/url graph (create_network_graph) and of the Mermaid diagram     *)
(* (generate_mermaid_diagram).                                             *)
(*                                                                         *)
(* A Python str is the sequence of its code points; None is a value that   *)
(* equals no str.  A dict is the sequence of its (key, value) entries in   *)
(* insertion order.                                                        *)
(***************************************************************************)
EXTENDS Integers, Sequences, FiniteSets, TLC

\* ------------------------------------------------------------------ bounds

\* items of an export document
MaxItems == 2
\* text fragments a body is put together from
MaxFrags == 4
\* article keys of a mapping handed to the graph and diagram functions
MaxKeys == 2
\* link occurrences, over all its articles, of such a mapping
MaxLinks == 2

\* ------------------------------------------------------------------ values

\* Python's None: no str holds a negative code point
None == <<-1>>

\* DOMAIN = "helpedbyanerd.com" (DOMAIN is a reserved word here)
DOMAIN_NAME == <<104, 101, 108, 112, 101, 100, 98, 121, 97, 110, 101, 114, 100, 46, 99, 111, 109>>
\* "No Title", the default of get_text
NO_TITLE == <<78, 111, 32, 84, 105, 116, 108, 101>>
\* "No Link"
NO_LINK == <<78, 111, 32, 76, 105, 110, 107>>
\* "Unknown Article"
UNKNOWN_ARTICLE == <<85, 110, 107, 110, 111, 119, 110, 32, 65, 114, 116, 105, 99, 108, 101>>
\* "empfiehlt"
AFFILIATE == <<101, 109, 112, 102, 105, 101, 104, 108, 116>>
\* ['.jpg', '.jpeg', '.png', '.gif', '.webp', '.mp4']
image_extensions ==
    << <<46, 106, 112, 103>>, <<46, 106, 112, 101, 103>>, <<46, 112, 110, 103>>,
       <<46, 103, 105, 102>>, <<46, 119, 101, 98, 112>>, <<46, 109, 112, 52>> >>
\* "graph LR;\n"
MERMAID_HEADER_LR == <<103, 114, 97, 112, 104, 32, 76, 82, 59, 10>>
\* "graph TD;\n"
MERMAID_HEADER == <<103, 114, 97, 112, 104, 32, 84, 68, 59, 10>>

\* ------------------------------------------------------------------ str

\* s[p:p+len(lit)] == lit
StartsAt(s, p, lit) ==
    /\ p >= 1
    /\ p + Len(lit) - 1 <= Len(s)
    /\ SubSeq(s, p, p + Len(lit) - 1) = lit

\* sub in s
Contains(s, sub) == \E p \in 1..(Len(s) - Len(sub) + 1) : StartsAt(s, p, sub)

\* s.endswith(suf)
EndsWith(s, suf) == Len(suf) <= Len(s) /\ StartsAt(s, Len(s) - Len(suf) + 1, suf)

RECURSIVE Concat(_)
\* "".join(parts)
Concat(parts) == IF parts = <<>> THEN <<>> ELSE Head(parts) \o Concat(Tail(parts))

RECURSIVE IntToStr(_)
\* str(n) for n >= 0: the decimal digits
IntToStr(n) == IF n < 10 THEN <<48 + n>> ELSE IntToStr(n \div 10) \o <<48 + (n % 10)>>

\* str(v) as an f-string renders it: None prints as "None"
Format(v) == IF v = None THEN <<78, 111, 110, 101>> ELSE v

Range(s) == {s[k] : k \in 1..Len(s)}

\* ------------------------------------------------------------------ the URL pattern
\* http[s]?://(?:[a-zA-Z]|[0-9]|[$-_@.&+]|[!*\(\),]|(?:%[0-9a-fA-F][0-9a-fA-F]))+

\* [a-zA-Z]
IsLetter(c) == c \in 97..122 \/ c \in 65..90
\* [0-9]
IsDigit(c) == c \in 48..57
\* [$-_@.&+]: the range from '$' to '_', and '@', '.', '&', '+'
IsRangeChar(c) == c \in 36..95 \/ c \in {64, 46, 38, 43}
\* [!*\(\),]
IsListChar(c) == c \in {33, 42, 40, 41, 44}
\* [0-9a-fA-F]
IsHex(c) == c \in 48..57 \/ c \in 97..102 \/ c \in 65..70

\* the characters one pass of the group takes at p: the first alternative that
\* matches decides; 0 when none does
GroupLen(s, p) ==
    IF p > Len(s) THEN 0
    ELSE IF IsLetter(s[p]) \/ IsDigit(s[p]) \/ IsRangeChar(s[p]) \/ IsListChar(s[p]) THEN 1
    ELSE IF s[p] = 37 /\ p + 2 <= Len(s) /\ IsHex(s[p + 1]) /\ IsHex(s[p + 2]) THEN 3
    ELSE 0

RECURSIVE GroupRun(_, _)
\* (?:...)+ is greedy and ends the pattern: the position after the last pass
GroupRun(s, p) == IF GroupLen(s, p) = 0 THEN p ELSE GroupRun(s, p + GroupLen(s, p))

\* the position after "http", an optional "s" and "://" at p; 0 when absent
SchemeEnd(s, p) ==
    IF StartsAt(s, p, <<104, 116, 116, 112, 115, 58, 47, 47>>) THEN p + 8
    ELSE IF StartsAt(s, p, <<104, 116, 116, 112, 58, 47, 47>>) THEN p + 7
    ELSE 0

\* the position after the match that starts at p; 0 when none starts there
MatchEnd(s, p) ==
    LET q == SchemeEnd(s, p)
    IN  IF q = 0 THEN 0
        ELSE IF GroupRun(s, q) > q THEN GroupRun(s, q)
        ELSE 0

RECURSIVE FindAllFrom(_, _)
FindAllFrom(s, p) ==
    IF p > Len(s) THEN <<>>
    ELSE LET e == MatchEnd(s, p)
         IN  IF e = 0 THEN FindAllFrom(s, p + 1)
             ELSE <<SubSeq(s, p, e - 1)>> \o FindAllFrom(s, e)

\* re.findall(pattern, content): the non-overlapping matches, left to right
findall(s) == FindAllFrom(s, 1)

\* the media extensions left unchecked
is_internal_any_file(url) == Contains(url, DOMAIN_NAME)

is_internal_and_not_image(url) ==
    /\ Contains(url, DOMAIN_NAME)
    /\ ~ \E e \in 1..Len(image_extensions) : EndsWith(url, image_extensions[e])

\* the condition of the comprehension of line 41
KeepUrl(url) == is_internal_and_not_image(url) /\ ~ Contains(url, AFFILIATE)

\* [url for url in urls if ...]
FilterUrls(urls) == SelectSeq(urls, KeepUrl)

\* ------------------------------------------------------------------ dict

Entry(key, val) == [k |-> key, v |-> val]

\* list(d.keys())
Keys(d) == [n \in 1..Len(d) |-> d[n].k]

KeySet(d) == {d[n].k : n \in 1..Len(d)}

\* key in d
Has(d, key) == key \in KeySet(d)

\* d[key]
Get(d, key) == d[CHOOSE n \in 1..Len(d) : d[n].k = key].v

\* d.get(key, default)
GetOr(d, key, default) == IF Has(d, key) THEN Get(d, key) ELSE default

\* d.setdefault(key, val): a present key keeps its value
DictSetKeepFirst(d, key, val) == IF Has(d, key) THEN d ELSE Append(d, Entry(key, val))

\* d[key] = val: a present key keeps its place and takes the value, a new one is appended
DictSet(d, key, val) ==
    IF Has(d, key)
    THEN [n \in 1..Len(d) |-> IF d[n].k = key THEN Entry(key, val) ELSE d[n]]
    ELSE Append(d, Entry(key, val))

\* ------------------------------------------------------------------ export items

\* a child element of an item: absent, or present with its .text (None when empty)
Absent == [present |-> FALSE, text |-> None]
Elem(text) == [present |-> TRUE, text |-> text]
Empty == Elem(None)

\* the default left at the parameter's own, "No Title", whatever the caller passes
get_text_title_default(element, default) == IF element.present THEN element.text ELSE NO_TITLE

\* the default also taken for an element without text
get_text_or_default(element, default) ==
    IF element.present /\ element.text # None THEN element.text ELSE default

\* element.find(path).text if element.find(path) is not None else default
get_text(element, default) == IF element.present THEN element.text ELSE default

Item(title, content, link) == [title |-> title, content |-> content, link |-> link]

\* ------------------------------------------------------------------ inputs

\* "A", "B"
TitleA == <<65>>
TitleB == <<66>>
\* "https://helpedbyanerd.com/a", "https://helpedbyanerd.com/b"
UrlA == <<104, 116, 116, 112, 115, 58, 47, 47, 104, 101, 108, 112, 101, 100, 98, 121, 97, 110, 101, 114, 100, 46, 99, 111, 109, 47, 97>>
UrlB == <<104, 116, 116, 112, 115, 58, 47, 47, 104, 101, 108, 112, 101, 100, 98, 121, 97, 110, 101, 114, 100, 46, 99, 111, 109, 47, 98>>
\* "https://helpedbyanerd.com/post-a"
UrlPostA == <<104, 116, 116, 112, 115, 58, 47, 47, 104, 101, 108, 112, 101, 100, 98, 121, 97, 110, 101, 114, 100, 46, 99, 111, 109, 47, 112, 111, 115, 116, 45, 97>>
\* "https://helpedbyanerd.com/cat.jpg"
UrlCat == <<104, 116, 116, 112, 115, 58, 47, 47, 104, 101, 108, 112, 101, 100, 98, 121, 97, 110, 101, 114, 100, 46, 99, 111, 109, 47, 99, 97, 116, 46, 106, 112, 103>>
\* "https://helpedbyanerd.com/empfiehlt/xyz"
UrlAff == <<104, 116, 116, 112, 115, 58, 47, 47, 104, 101, 108, 112, 101, 100, 98, 121, 97, 110, 101, 114, 100, 46, 99, 111, 109, 47, 101, 109, 112, 102, 105, 101, 104, 108, 116, 47, 120, 121, 122>>
\* "http://example.org/x"
UrlExt == <<104, 116, 116, 112, 58, 47, 47, 101, 120, 97, 109, 112, 108, 101, 46, 111, 114, 103, 47, 120>>
\* "See ", " and ", ",", "http://"
TextSee == <<83, 101, 101, 32>>
TextAnd == <<32, 97, 110, 100, 32>>
TextComma == <<44>>
TextScheme == <<104, 116, 116, 112, 58, 47, 47>>

\* the pieces of the body texts
Fragments == {TextSee, TextAnd, TextComma, TextScheme, UrlPostA, UrlCat, UrlAff, UrlExt}

SeqsUpTo(S, n) == UNION {[1..m -> S] : m \in 0..n}

\* the body texts: up to MaxFrags fragments, one after the other
Bodies == {Concat(fs) : fs \in SeqsUpTo(Fragments, MaxFrags)}

\* the children an item of the export may hold
TitleFields == {Absent, Empty, Elem(TitleA), Elem(UNKNOWN_ARTICLE)}
LinkFields == {Absent, Empty, Elem(UrlA)}
\* "https://helpedbyanerd.com/b and https://helpedbyanerd.com/a and https://helpedbyanerd.com/b"
ContentFields == {Absent, Empty, Elem(UrlB \o TextAnd \o UrlA \o TextAnd \o UrlB)}

Items == {Item(ti, co, li) : ti \in TitleFields, co \in ContentFields, li \in LinkFields}

\* the export documents: the items root.findall('.//item') yields, in document order
Docs == SeqsUpTo(Items, MaxItems)

\* the keys and link targets of a mapping handed to create_network_graph and
\* generate_mermaid_diagram; a title may itself read like a URL
ArticleTitles == {TitleA, TitleB, UNKNOWN_ARTICLE, UrlA}
LinkTargets == {UrlA, UrlB}
MappedLinks == <<UrlA, UrlB>>
MappedTitles == {TitleA, TitleB}

IsInjective(s) == \A m, n \in 1..Len(s) : m # n => s[m] # s[n]

KeyOrders == {ks \in SeqsUpTo(ArticleTitles, MaxKeys) : IsInjective(ks)}

LinkLists == SeqsUpTo(LinkTargets, MaxLinks)

RECURSIVE SumLen(_)
SumLen(ls) == IF ls = <<>> THEN 0 ELSE Len(Head(ls)) + SumLen(Tail(ls))

\* the dict with the keys ks, in this order, and the lists ls
DictOf(ks, ls) == [n \in 1..Len(ks) |-> Entry(ks[n], ls[n])]

RECURSIVE PickEntries(_, _, _)
\* the dict of the links of MappedLinks chosen by sub, each with its title
PickEntries(n, sub, val) ==
    IF n > Len(MappedLinks) THEN <<>>
    ELSE (IF n \in sub THEN <<Entry(MappedLinks[n], val[n])>> ELSE <<>>)
         \o PickEntries(n + 1, sub, val)

\* the link-to-title mappings
MappingInputs ==
    { PickEntries(1, sub, val) : sub \in SUBSET (1..Len(MappedLinks)),
                                 val \in [1..Len(MappedLinks) -> MappedTitles] }

\* ------------------------------------------------------------------ state

VARIABLES
    pc,                      \* the statement to run next
    tree,                    \* the items of the parsed export
    i,                       \* extract_content: the index of the item the loop is at
    title, content, link,    \* extract_content: the loop's locals (lines 35-37)
    urls, internal_urls,     \* extract_content: the loop's locals (lines 40-41)
    articles_internal_links, \* extract_content: title -> links
    articles,                \* extract_content: link -> title
    mapping,                 \* the module's mapping (line 136)
    internal_links,          \* the argument of create_network_graph and generate_mermaid_diagram
    G,                       \* create_network_graph: the DiGraph
    a, u,                    \* create_network_graph: the article and the url the loops are at
    article_ids,             \* generate_mermaid_diagram: title -> id
    mermaid_graph,           \* generate_mermaid_diagram: the text, as the sequence of its lines
    t, l                     \* generate_mermaid_diagram: the title and the link the loops are at

vars == <<pc, tree, i, title, content, link, urls, internal_urls, articles_internal_links,
          articles, mapping, internal_links, G, a, u, article_ids, mermaid_graph, t, l>>

extractLocals == <<title, content, link, urls, internal_urls>>
extractVars == <<tree, i, articles_internal_links, articles>>
graphVars == <<G, a, u>>
diagramVars == <<article_ids, mermaid_graph, t, l>>

\* nx.DiGraph(): no node, no edge
EmptyGraph == [nodes |-> <<>>, edges |-> {}]

Start(pc0, tree0, content0, internal_links0, mapping0) ==
    /\ pc = pc0
    /\ tree = tree0
    /\ i = 1
    /\ title = <<>> /\ content = content0 /\ link = <<>>
    /\ urls = <<>> /\ internal_urls = <<>>
    /\ articles_internal_links = <<>>
    /\ articles = <<>>
    /\ mapping = mapping0
    /\ internal_links = internal_links0
    /\ G = EmptyGraph
    /\ a = 1 /\ u = 0
    /\ article_ids = <<>>
    /\ mermaid_graph = <<>>
    /\ t = 1 /\ l = 1

\* the script: extract_content(tree) starts on a parsed export (lines 133-136, 30-32)
Init == \E doc \in Docs : Start("extract", doc, <<>>, <<>>, <<>>)

\* lines 40-41 on a body text
InitLinks == \E body \in Bodies : Start("scan", <<>>, body, <<>>, <<>>)

\* create_network_graph(data), then generate_mermaid_diagram(data, mapping), as lines 145-149
InitGraph ==
    \E ks \in KeyOrders, m \in MappingInputs :
        \E ls \in [1..Len(ks) -> LinkLists] :
            /\ SumLen(ls) <= MaxLinks
            /\ Start("graph", <<>>, <<>>, DictOf(ks, ls), m)

\* ------------------------------------------------------------------ extract_content

\* lines 34-37: the next item's title, content and link
ReadItem ==
    /\ pc = "extract"
    /\ i <= Len(tree)
    /\ title' = get_text(tree[i].title, NO_TITLE)
    /\ content' = get_text(tree[i].content, <<>>)
    /\ link' = get_text(tree[i].link, NO_LINK)
    /\ pc' = "scan"
    /\ UNCHANGED <<urls, internal_urls, extractVars, mapping, internal_links, graphVars, diagramVars>>

\* line 40: re.findall raises TypeError when content is None
ScanUrls ==
    /\ pc = "scan"
    /\ IF content = None
       THEN pc' = "TypeError" /\ UNCHANGED urls
       ELSE pc' = "filter" /\ urls' = findall(content)
    /\ UNCHANGED <<title, content, link, internal_urls, extractVars, mapping, internal_links,
                   graphVars, diagramVars>>

\* line 41
FilterInternal ==
    /\ pc = "filter"
    /\ internal_urls' = FilterUrls(urls)
    /\ pc' = "store"
    /\ UNCHANGED <<title, content, link, urls, extractVars, mapping, internal_links,
                   graphVars, diagramVars>>

\* lines 43-44
StoreItem ==
    /\ pc = "store"
    /\ articles_internal_links' = DictSet(articles_internal_links, title, internal_urls)
    /\ articles' = DictSet(articles, link, title)
    /\ i' = i + 1
    /\ pc' = "extract"
    /\ UNCHANGED <<tree, extractLocals, mapping, internal_links, graphVars, diagramVars>>

\* lines 46 and 136: the loop is over, the two dicts are returned
ExtractReturn ==
    /\ pc = "extract"
    /\ i > Len(tree)
    /\ mapping' = articles
    /\ pc' = "dedup"
    /\ UNCHANGED <<extractLocals, extractVars, internal_links, graphVars, diagramVars>>

\* ------------------------------------------------------------------ the script

\* the orders list(set(v)) may give: a set's iteration order is not fixed
Perms(S) == {p \in [1..Cardinality(S) -> S] : IsInjective(p)}

\* {k: list(set(v)) for k, v in d.items()}
WithoutDuplicates(d) ==
    LET lists == UNION {Perms(Range(d[n].v)) : n \in 1..Len(d)}
    IN  { [n \in 1..Len(d) |-> Entry(d[n].k, ch[n])] :
            ch \in {c \in [1..Len(d) -> lists] : \A n \in 1..Len(d) : c[n] \in Perms(Range(d[n].v))} }

\* lines 142-145: without_duplicates is what the graph and the diagram are built from
Dedup ==
    /\ pc = "dedup"
    /\ internal_links' \in WithoutDuplicates(articles_internal_links)
    /\ pc' = "graph"
    /\ UNCHANGED <<extractLocals, extractVars, mapping, graphVars, diagramVars>>

\* ------------------------------------------------------------------ create_network_graph

\* G.add_node(n, type=ty): a node already there takes the attribute
add_node(g, n, ty) ==
    [g EXCEPT !.nodes = [x \in (DOMAIN g.nodes) \cup {n} |-> IF x = n THEN ty ELSE g.nodes[x]]]

\* self-loops suppressed
add_edge_no_loop(g, x, y) ==
    IF x = y THEN g
    ELSE [nodes |-> [z \in (DOMAIN g.nodes) \cup {x, y} |->
                        IF z \in DOMAIN g.nodes THEN g.nodes[z] ELSE "none"],
          edges |-> g.edges \cup {<<x, y>>}]

\* G.add_edge(x, y): an endpoint not yet a node is added without attributes
add_edge(g, x, y) ==
    [nodes |-> [z \in (DOMAIN g.nodes) \cup {x, y} |->
                   IF z \in DOMAIN g.nodes THEN g.nodes[z] ELSE "none"],
     edges |-> g.edges \cup {<<x, y>>}]

\* n in G
HasNode(g, n) == n \in DOMAIN g.nodes

\* the node added without the test of line 56
AddUrlNodeAlways(g, url) == add_node(g, url, "url")

\* lines 56-57: if url not in G: G.add_node(url, type='url')
AddUrlNode(g, url) == IF ~ HasNode(g, url) THEN add_node(g, url, "url") ELSE g

\* the loops of lines 53 and 55 after the step at (a, u): the next url of the
\* article, else the next article
GraphAdvance ==
    IF u < Len(internal_links[a].v)
    THEN a' = a /\ u' = u + 1
    ELSE a' = a + 1 /\ u' = 0

\* lines 53-54: networkx raises ValueError for the node None
GraphAddArticle ==
    /\ pc = "graph"
    /\ a <= Len(internal_links)
    /\ u = 0
    /\ IF internal_links[a].k = None
       THEN pc' = "ValueError" /\ UNCHANGED graphVars
       ELSE /\ G' = add_node(G, internal_links[a].k, "article")
            /\ GraphAdvance
            /\ pc' = "graph"
    /\ UNCHANGED <<extractLocals, extractVars, mapping, internal_links, diagramVars>>

\* lines 55-58
GraphAddUrl ==
    /\ pc = "graph"
    /\ a <= Len(internal_links)
    /\ u >= 1
    /\ LET article == internal_links[a].k
           url == internal_links[a].v[u]
       IN  G' = add_edge(AddUrlNode(G, url), article, url)
    /\ GraphAdvance
    /\ UNCHANGED <<pc, extractLocals, extractVars, mapping, internal_links, diagramVars>>

\* lines 61-64 and 146-148: the figure is laid out and shown, the mapping printed
GraphShow ==
    /\ pc = "graph"
    /\ a > Len(internal_links)
    /\ pc' = "diagram"
    /\ UNCHANGED <<extractLocals, extractVars, mapping, internal_links, graphVars, diagramVars>>

\* ------------------------------------------------------------------ generate_mermaid_diagram

\* f"A{index}"
ArticleId(index) == <<65>> \o IntToStr(index)

\* enumerate(internal_links.keys(), 1)
AssignIdsFromOne(d) == [n \in 1..Len(d) |-> Entry(d[n].k, ArticleId(n))]

\* {title: f"A{index}" for index, title in enumerate(internal_links.keys())}
AssignIds(d) == [n \in 1..Len(d) |-> Entry(d[n].k, ArticleId(n - 1))]

\* the edge drawn from the target to the source
EdgeStatementReversed(source_id, title_, target_id, link_title) ==
    <<32, 32>> \o target_id \o <<91, 34>> \o Format(link_title) \o <<34, 93, 32, 45, 45, 62, 32>>
    \o source_id \o <<91, 34>> \o Format(title_) \o <<34, 93, 59, 10>>

\* f"  {source_id}[\"{title}\"] --> {target_id}[\"{link_title}\"];\n"
EdgeStatement(source_id, title_, target_id, link_title) ==
    <<32, 32>> \o source_id \o <<91, 34>> \o Format(title_) \o <<34, 93, 32, 45, 45, 62, 32>>
    \o target_id \o <<91, 34>> \o Format(link_title) \o <<34, 93, 59, 10>>

\* mapping.get(link, "Unknown Article")
ResolveTitle(m, link_) == GetOr(m, link_, UNKNOWN_ARTICLE)

RECURSIVE NextLink(_, _, _)
\* the loops of lines 106 and 108 from (t, l): the first link at or after it
NextLink(d, tt, ll) ==
    IF tt > Len(d) THEN <<tt, 1>>
    ELSE IF ll <= Len(d[tt].v) THEN <<tt, ll>>
    ELSE NextLink(d, tt + 1, 1)

\* lines 103-104
DiagramStart ==
    /\ pc = "diagram"
    /\ mermaid_graph' = <<MERMAID_HEADER>>
    /\ article_ids' = AssignIds(internal_links)
    /\ t' = NextLink(internal_links, 1, 1)[1]
    /\ l' = NextLink(internal_links, 1, 1)[2]
    /\ pc' = "links"
    /\ UNCHANGED <<extractLocals, extractVars, mapping, internal_links, graphVars>>

\* lines 106-112, for one link of one title
DiagramLink ==
    /\ pc = "links"
    /\ t <= Len(internal_links)
    /\ LET title_ == internal_links[t].k
           source_id == Get(article_ids, title_)
           link_title == ResolveTitle(mapping, internal_links[t].v[l])
       IN  mermaid_graph' =
               IF Has(article_ids, link_title)
               THEN Append(mermaid_graph,
                           EdgeStatement(source_id, title_, Get(article_ids, link_title), link_title))
               ELSE mermaid_graph
    /\ t' = NextLink(internal_links, t, l + 1)[1]
    /\ l' = NextLink(internal_links, t, l + 1)[2]
    /\ UNCHANGED <<pc, article_ids, extractLocals, extractVars, mapping, internal_links, graphVars>>

\* lines 114 and 149-150
DiagramReturn ==
    /\ pc = "links"
    /\ t > Len(internal_links)
    /\ pc' = "done"
    /\ UNCHANGED <<extractLocals, extractVars, mapping, internal_links, graphVars, diagramVars>>

\* ------------------------------------------------------------------ specifications

NextLinks == ScanUrls \/ FilterInternal

NextGraph ==
    \/ GraphAddArticle
    \/ GraphAddUrl
    \/ GraphShow
    \/ DiagramStart
    \/ DiagramLink
    \/ DiagramReturn

Next ==
    \/ ReadItem
    \/ ScanUrls
    \/ FilterInternal
    \/ StoreItem
    \/ ExtractReturn
    \/ Dedup
    \/ GraphAddArticle
    \/ GraphAddUrl
    \/ GraphShow
    \/ DiagramStart
    \/ DiagramLink
    \/ DiagramReturn

\* the script, from the parsed export to the printed diagram
Spec == Init /\ [][Next]_vars

\* the link extraction of one body text
SpecLinks == InitLinks /\ [][NextLinks]_vars

\* the graph and the diagram of a given mapping
SpecGraph == InitGraph /\ [][NextGraph]_vars

\* ------------------------------------------------------------------ C1

\* C1 (SpecLinks): once lines 40-41 have run on a body text, every link of
\* internal_urls is one of the candidates findall gave, is a piece of the text that
\* starts with http:// or https://, holds "helpedbyanerd.com", ends with none of
\* .jpg .jpeg .png .gif .webp .mp4 and does not hold "empfiehlt"; and every
\* candidate with these three properties is in internal_urls.
C1_ExtractionIsAFilter ==
    LET domain == <<104, 101, 108, 112, 101, 100, 98, 121, 97, 110, 101, 114, 100, 46, 99, 111, 109>>
        marker == <<101, 109, 112, 102, 105, 101, 104, 108, 116>>
        media == { <<46, 106, 112, 103>>, <<46, 106, 112, 101, 103>>, <<46, 112, 110, 103>>,
                   <<46, 103, 105, 102>>, <<46, 119, 101, 98, 112>>, <<46, 109, 112, 52>> }
        Wanted(x) == /\ Contains(x, domain)
                     /\ \A e \in media : ~ EndsWith(x, e)
                     /\ ~ Contains(x, marker)
    IN  pc = "store" =>
            /\ \A n \in 1..Len(internal_urls) :
                   /\ internal_urls[n] \in Range(urls)
                   /\ Contains(content, internal_urls[n])
                   /\ \/ StartsAt(internal_urls[n], 1, <<104, 116, 116, 112, 58, 47, 47>>)
                      \/ StartsAt(internal_urls[n], 1, <<104, 116, 116, 112, 115, 58, 47, 47>>)
                   /\ Wanted(internal_urls[n])
            /\ \A n \in 1..Len(urls) : Wanted(urls[n]) => urls[n] \in Range(internal_urls)

\* the body "See https://helpedbyanerd.com/post-a and https://helpedbyanerd.com/cat.jpg"
\* has given the two candidates and kept the first
C1_Witness ==
    /\ pc = "store"
    /\ content = TextSee \o UrlPostA \o TextAnd \o UrlCat
    /\ urls = <<UrlPostA, UrlCat>>
    /\ internal_urls = <<UrlPostA>>

\* ------------------------------------------------------------------ C2

\* C2 (Spec): every edge statement of the diagram, from the title S to the title T,
\* comes from a link u of ArticleLinks[S] that is a key of LinkToTitle with
\* LinkToTitle[u] = T, where T is a key of ArticleLinks.
C2_EdgesResolveThroughMapping ==
    \A n \in 2..Len(mermaid_graph) :
        \E s \in 1..Len(internal_links) :
            \E j \in 1..Len(internal_links[s].v) :
                LET S == internal_links[s].k
                    link_ == internal_links[s].v[j]
                IN  /\ Has(mapping, link_)
                    /\ Has(internal_links, Get(mapping, link_))
                    /\ mermaid_graph[n] =
                           EdgeStatement(Get(article_ids, S), S,
                                         Get(article_ids, Get(mapping, link_)), Get(mapping, link_))

\* ------------------------------------------------------------------ C3

\* C3 (Spec): an item without a title element is read and recorded under "No Title",
\* one without a link element under "No Link", one without a content element has the
\* body "" and the link list []; and the TypeError of line 40 is never raised at an
\* item whose content element is missing.
C3_MissingFieldsDefault ==
    LET noTitle == <<78, 111, 32, 84, 105, 116, 108, 101>>
        noLink == <<78, 111, 32, 76, 105, 110, 107>>
    IN  /\ pc = "scan" =>
            /\ ~ tree[i].title.present => title = noTitle
            /\ ~ tree[i].link.present => link = noLink
            /\ ~ tree[i].content.present => content = <<>>
        /\ pc = "TypeError" => tree[i].content.present
        /\ (pc = "extract" /\ i > 1) =>
            /\ ~ tree[i - 1].title.present =>
                   /\ Has(articles_internal_links, noTitle)
                   /\ title = noTitle
            /\ ~ tree[i - 1].link.present =>
                   /\ Has(articles, noLink)
                   /\ Get(articles, noLink) = title
            /\ ~ tree[i - 1].content.present =>
                   /\ Has(articles_internal_links, title)
                   /\ Get(articles_internal_links, title) = <<>>

\* an item with none of the three elements has been recorded
C3_Witness ==
    /\ pc = "extract"
    /\ i = 2
    /\ tree[1] = Item(Absent, Absent, Absent)
    /\ articles_internal_links = <<Entry(NO_TITLE, <<>>)>>
    /\ articles = <<Entry(NO_LINK, NO_TITLE)>>

\* ------------------------------------------------------------------ C4

\* the title, the link and the link list of item j, read off the export
C4_TitleOf(j) == IF tree[j].title.present THEN tree[j].title.text ELSE NO_TITLE
C4_LinkOf(j) == IF tree[j].link.present THEN tree[j].link.text ELSE NO_LINK
C4_LinksOf(j) == IF tree[j].content.present THEN FilterUrls(findall(tree[j].content.text)) ELSE <<>>

\* C4 (Spec): whenever the loop of extract_content is at its head or has returned,
\* with the items 1..i-1 stored, the keys of ArticleLinks are exactly their titles
\* and ArticleLinks[t] is the link list of the last of them titled t; the keys of
\* LinkToTitle are exactly their links ("No Link" for an item without one) and
\* LinkToTitle[l] is the title of the last of them with the link l; and what is
\* returned as the mapping is that LinkToTitle.
C4_LastWriteWins ==
    LET stored == 1..(i - 1)
        LastWith(F(_), x) == CHOOSE j \in stored : F(j) = x /\ \A m \in stored : F(m) = x => m <= j
    IN  pc \in {"extract", "dedup"} =>
            /\ KeySet(articles_internal_links) = {C4_TitleOf(j) : j \in stored}
            /\ IsInjective(Keys(articles_internal_links))
            /\ \A x \in KeySet(articles_internal_links) :
                   Get(articles_internal_links, x) = C4_LinksOf(LastWith(C4_TitleOf, x))
            /\ KeySet(articles) = {C4_LinkOf(j) : j \in stored}
            /\ IsInjective(Keys(articles))
            /\ \A x \in KeySet(articles) :
                   Get(articles, x) = C4_TitleOf(LastWith(C4_LinkOf, x))
            /\ pc = "dedup" => i = Len(tree) + 1 /\ mapping = articles

\* two items without a link and with different titles: "No Link" maps to the second title
C4_Witness ==
    /\ pc = "extract"
    /\ i = 3
    /\ ~ tree[1].link.present /\ ~ tree[2].link.present
    /\ tree[1].title = Elem(TitleA) /\ ~ tree[2].title.present
    /\ articles = <<Entry(NO_LINK, NO_TITLE)>>
    /\ Len(articles_internal_links) = 2

\* ------------------------------------------------------------------ C5

\* C5 (SpecGraph): from the id assignment on, through every edge emitted, the k-th
\* key of ArticleLinks (from 0) has the identifier "A" followed by k, every key has
\* one identifier, and two titles never share one; the identifiers are a function
\* of the key order alone.
C5_IdsFollowKeyOrder ==
    pc \in {"links", "done"} =>
        /\ Len(article_ids) = Len(internal_links)
        /\ \A n \in 1..Len(internal_links) :
               /\ article_ids[n].k = internal_links[n].k
               /\ article_ids[n].v = <<65>> \o IntToStr(n - 1)
        /\ \A m, n \in 1..Len(article_ids) :
               m # n => article_ids[m].k # article_ids[n].k /\ article_ids[m].v # article_ids[n].v

\* two articles have the ids A0 and A1, and an edge has been emitted since
C5_Witness ==
    /\ pc = "done"
    /\ Len(mermaid_graph) > 1
    /\ Keys(internal_links) = <<TitleB, TitleA>>
    /\ article_ids = <<Entry(TitleB, <<65, 48>>), Entry(TitleA, <<65, 49>>)>>

\* ------------------------------------------------------------------ C6

\* the index of the key x of d
C6_IndexOf(d, x) == CHOOSE n \in 1..Len(d) : d[n].k = x

RECURSIVE C6_Edges(_, _, _, _)
\* the edge statements due from link ll of title tt on, in key order and list order
C6_Edges(d, m, tt, ll) ==
    IF tt > Len(d) THEN <<>>
    ELSE IF ll > Len(d[tt].v) THEN C6_Edges(d, m, tt + 1, 1)
    ELSE LET R == IF \E n \in 1..Len(m) : m[n].k = d[tt].v[ll]
                  THEN Get(m, d[tt].v[ll])
                  ELSE <<85, 110, 107, 110, 111, 119, 110, 32, 65, 114, 116, 105, 99, 108, 101>>
         IN  (IF R \in KeySet(d)
              THEN <<EdgeStatement(<<65>> \o IntToStr(tt - 1), d[tt].k,
                                   <<65>> \o IntToStr(C6_IndexOf(d, R) - 1), R)>>
              ELSE <<>>)
             \o C6_Edges(d, m, tt, ll + 1)

\* C6 (SpecGraph): the finished diagram is the header followed by one edge statement
\* for each link occurrence, in key order and list order, whose resolved title R
\* (LinkToTitle[link], or "Unknown Article" for a link without entry) is a key of
\* ArticleLinks, from the source's id and title to R's; no error is raised; and for
\* the articles A (link a) and B (link b, one link to a) the diagram is the header and
\* the one line   A1["B"] --> A0["A"];
C6_OneEdgePerResolvedLink ==
    /\ pc \in {"graph", "diagram", "links", "done"}
    /\ pc = "done" => mermaid_graph = <<MERMAID_HEADER>> \o C6_Edges(internal_links, mapping, 1, 1)
    /\ ( /\ pc = "done"
         /\ internal_links = <<Entry(TitleA, <<>>), Entry(TitleB, <<UrlA>>)>>
         /\ mapping = <<Entry(UrlA, TitleA), Entry(UrlB, TitleB)>> )
       => mermaid_graph =
              << MERMAID_HEADER,
                 <<32, 32, 65, 49, 91, 34, 66, 34, 93, 32, 45, 45, 62, 32,
                   65, 48, 91, 34, 65, 34, 93, 59, 10>> >>

\* the diagram of the articles A and B is finished: two lines
C6_Witness ==
    /\ pc = "done"
    /\ internal_links = <<Entry(TitleA, <<>>), Entry(TitleB, <<UrlA>>)>>
    /\ mapping = <<Entry(UrlA, TitleA), Entry(UrlB, TitleB)>>
    /\ Len(mermaid_graph) = 2

\* ------------------------------------------------------------------ C7

\* the articles and the link targets the loops of create_network_graph are through with
C7_ArticlesDone == {internal_links[n].k : n \in {m \in 1..Len(internal_links) : m < a \/ (m = a /\ u >= 1)}}
C7_TargetsDone ==
    UNION { {internal_links[n].v[j] : j \in {x \in 1..Len(internal_links[n].v) : n < a \/ x < u}}
            : n \in {m \in 1..Len(internal_links) : m <= a} }

\* C7 (SpecGraph): at every step of create_network_graph the nodes are the articles
\* and the link targets handled so far; each handled article has the type article,
\* also when a link targets it, and each other node the type url; in the finished
\* graph every key is an article node, every target a node, and every node's type is
\* article or url.
C7_NodeTypes ==
    /\ DOMAIN G.nodes = C7_ArticlesDone \cup C7_TargetsDone
    /\ \A n \in DOMAIN G.nodes :
           G.nodes[n] = IF n \in C7_ArticlesDone THEN "article" ELSE "url"
    /\ pc \in {"diagram", "links", "done"} =>
           /\ \A n \in 1..Len(internal_links) :
                  /\ internal_links[n].k \in DOMAIN G.nodes
                  /\ G.nodes[internal_links[n].k] = "article"
                  /\ \A j \in 1..Len(internal_links[n].v) : internal_links[n].v[j] \in DOMAIN G.nodes
           /\ \A n \in DOMAIN G.nodes : G.nodes[n] \in {"article", "url"}

\* the article titled https://helpedbyanerd.com/a was a node when A's link to it came
C7_Witness ==
    /\ pc = "diagram"
    /\ internal_links = <<Entry(UrlA, <<>>), Entry(TitleA, <<UrlA, UrlB>>)>>
    /\ G.nodes[UrlA] = "article"
    /\ G.nodes[UrlB] = "url"
    /\ <<TitleA, UrlA>> \in G.edges

\* ------------------------------------------------------------------ C8

\* C8 (SpecGraph): in the finished graph (a, b) is an edge exactly when a is a key of
\* ArticleLinks and b occurs in ArticleLinks[a]: once for a repeated b, as a
\* self-loop when b is a; and a link the diagram drops, its resolved title being no
\* key, is a node with the edge from its article.
C8_EdgeSet ==
    pc \in {"diagram", "links", "done"} =>
        /\ \A e \in G.edges :
               \E n \in 1..Len(internal_links) :
                   e[1] = internal_links[n].k /\ e[2] \in Range(internal_links[n].v)
        /\ \A n \in 1..Len(internal_links) :
               \A j \in 1..Len(internal_links[n].v) :
                   /\ <<internal_links[n].k, internal_links[n].v[j]>> \in G.edges
                   /\ ~ Has(internal_links, ResolveTitle(mapping, internal_links[n].v[j])) =>
                          internal_links[n].v[j] \in DOMAIN G.nodes

\* the article titled https://helpedbyanerd.com/a links to itself twice: one
\* self-loop in the graph, and no edge statement in the diagram
C8_Witness ==
    /\ pc = "done"
    /\ internal_links = <<Entry(UrlA, <<UrlA, UrlA>>)>>
    /\ mapping = <<>>
    /\ G.edges = {<<UrlA, UrlA>>}
    /\ mermaid_graph = <<MERMAID_HEADER>>

\* ------------------------------------------------------------------ C9

\* C9 (Spec): for an export without items the run raises nothing, both dicts stay
\* empty and the finished diagram is the header alone; for every export the diagram,
\* once begun, starts with the line "graph TD;".
C9_ZeroItemsAndHeader ==
    LET header == <<103, 114, 97, 112, 104, 32, 84, 68, 59, 10>>
    IN  /\ tree = <<>> =>
               /\ pc \notin {"TypeError", "ValueError"}
               /\ articles_internal_links = <<>> /\ articles = <<>> /\ mapping = <<>>
               /\ internal_links = <<>>
               /\ pc = "done" => mermaid_graph = <<header>>
        /\ pc \in {"links", "done"} => Len(mermaid_graph) >= 1 /\ mermaid_graph[1] = header

\* the run on an export without items is over
C9_Witness ==
    /\ tree = <<>>
    /\ pc = "done"
    /\ mapping = <<>>
    /\ Len(mermaid_graph) = 1

\* ------------------------------------------------------------------ C10

\* C10 (Spec): an item whose title (link) element is there without text is read and
\* recorded under None, not under "No Title" ("No Link"); line 40 raises TypeError
\* exactly at an item whose content element is there without text, and then no
\* mapping is returned and neither graph nor diagram is built, whatever the items
\* before and after.
C10_EmptyElementsAreNone ==
    LET HasNoText(e) == e.present /\ e.text = None
    IN  /\ pc = "scan" =>
            /\ HasNoText(tree[i].title) => title = None /\ title # NO_TITLE
            /\ HasNoText(tree[i].link) => link = None /\ link # NO_LINK
            /\ HasNoText(tree[i].content) => content = None
        /\ (pc = "extract" /\ i > 1) =>
            /\ HasNoText(tree[i - 1].title) => Has(articles_internal_links, None)
            /\ HasNoText(tree[i - 1].link) => Has(articles, None) /\ Get(articles, None) = title
        /\ pc = "TypeError" =>
            /\ HasNoText(tree[i].content)
            /\ mapping = <<>> /\ internal_links = <<>>
            /\ G = EmptyGraph
            /\ article_ids = <<>> /\ mermaid_graph = <<>>
        /\ pc \in {"filter", "store"} => ~ HasNoText(tree[i].content)
        /\ pc \in {"dedup", "graph", "diagram", "links", "done", "ValueError"} =>
            \A j \in 1..Len(tree) : ~ HasNoText(tree[j].content)

\* the second item's empty content element has raised; the first item, with an
\* empty title element, had been stored under None
C10_Witness ==
    /\ pc = "TypeError"
    /\ i = 2
    /\ tree[1].title = Empty /\ tree[1].link = Empty
    /\ tree[2].content = Empty
    /\ Has(articles_internal_links, None)
    /\ articles = <<Entry(None, None)>>
    /\ mapping = <<>>

====
